---------------------------- MODULE Spec2Model ----------------------------
(***************************************************************************)
(* A model of the rime core crate: the Frame container (frame.rs), its     *)
(* bincode/typetag stream codec, the File reader/writer (file.rs) and the  *)
(* Tray pipeline runner (tray.rs, module.rs).                              *)
(*                                                                         *)
(* Strings (keys, text values, type tags) are sequences of UTF-8 bytes, so *)
(* that the codec works on what is really on the stream.  A stored value   *)
(* is a record [type, val]: type is the concrete Rust type behind the      *)
(* Box<dyn Serializeable> (what downcast_ref tests), val its bytes (the    *)
(* UTF-8 bytes of a String, the single byte of a u8).                      *)
(***************************************************************************)
EXTENDS Integers, Sequences, FiniteSets, TLC

VARIABLES
    frames,   \* arena of Frame objects: <<[data, parent, shared], ...>>
    stream,   \* a Vec<u8> used as destination/source of the codec
    sent,     \* history: the records written to `stream`
    last,     \* the last call made and what it returned
    disk,     \* the file at the one path: [exists, bytes]
    file,     \* the open File object, or NoFile
    ondisk,   \* history: the intact records `disk` starts with
    damaged,  \* history: bytes after the intact records are a broken record
    reads,    \* the results of this File's read_frame calls, in order
    tray,     \* the Tray: [start_module, modules]
    run       \* the activation of Tray::run_bounded

vars == <<frames, stream, sent, last, disk, file, ondisk, damaged, reads, tray, run>>

frameVars == <<frames, stream, sent>>
fileVars == <<disk, file, ondisk, damaged, reads>>
trayVars == <<tray, run>>

(***************************************************************************)
(* Universe of the model                                                   *)
(***************************************************************************)
K1 == <<107>>                       \* the key "k"
K2 == <<106>>                       \* the key "j"
Keys == {K1, K2}
K3 == <<105>>                       \* the key "i", which only a shared ancestor holds

TString == "String"
TU8 == "u8"
Types == {TString, TU8}

StrA == [type |-> TString, val |-> <<97>>]   \* String::from("a")
U1 == [type |-> TU8, val |-> <<1>>]          \* 1u8
U2 == [type |-> TU8, val |-> <<2>>]          \* 2u8
Values == {StrA, U1, U2}

EmptyMap == [k \in {} |-> U1]
LocalMaps == UNION {[S -> Values] : S \in SUBSET Keys}

Put(m, k, v) == [x \in (DOMAIN m) \cup {k} |-> IF x = k THEN v ELSE m[x]]

\* HashMap iteration orders: every enumeration of the key set
Orders(m) ==
    {o \in [1..Cardinality(DOMAIN m) -> DOMAIN m] :
        \A i, j \in DOMAIN o : i # j => o[i] # o[j]}

NoParent == 0

(***************************************************************************)
(* bincode (fixed-width little-endian integers) and typetag (externally    *)
(* tagged trait objects)                                                   *)
(***************************************************************************)
U64Bytes == 8

\* a length no stream of the model reaches: stands for any u64 >= 2^24
Huge == 256 * 65536

WriteU64(n) ==
    [i \in 1..U64Bytes |->
        CASE i = 1 -> n % 256
          [] i = 2 -> (n \div 256) % 256
          [] i = 3 -> (n \div 65536) % 256
          [] OTHER -> 0]

WriteStr(s) == WriteU64(Len(s)) \o s

\* the name typetag registers for each impl of Serializeable
TagOf(t) == IF t = TString THEN <<83, 116, 114, 105, 110, 103>> ELSE <<117, 56>>

\* mutant: every value goes out under the tag of String
WriteValue_wrongtag(v) ==
    WriteU64(1) \o WriteStr(TagOf(TString))
        \o (IF v.type = TString THEN WriteStr(v.val) ELSE v.val)

WriteValue(v) ==
    WriteU64(1) \o WriteStr(TagOf(v.type))
        \o (IF v.type = TString THEN WriteStr(v.val) ELSE v.val)

RECURSIVE WriteEntries(_, _, _)
WriteEntries(m, o, i) ==
    IF i > Len(o) THEN <<>>
    ELSE WriteStr(o[i]) \o WriteValue(m[o[i]]) \o WriteEntries(m, o, i + 1)

\* bincode::serialize_into(destination, &self.data), the map iterated in order o
serialize_into(m, o) == WriteU64(Len(o)) \o WriteEntries(m, o, 1)

DecOk(v, p) == [ok |-> TRUE, val |-> v, err |-> "", pos |-> p]
DecErr(e, p) == [ok |-> FALSE, val |-> <<>>, err |-> e, pos |-> p]

\* read_exact of n bytes at offset p: at end of stream everything left is consumed
CanRead(b, p, n) == p + n <= Len(b)

ReadU64(b, p) ==
    IF ~CanRead(b, p, U64Bytes) THEN DecErr("UnexpectedEof", Len(b))
    ELSE IF \E i \in 4..U64Bytes : b[p + i] # 0 THEN DecOk(Huge, p + U64Bytes)
    ELSE DecOk(b[p + 1] + 256 * b[p + 2] + 65536 * b[p + 3], p + U64Bytes)

RECURSIVE Utf8(_, _)
Utf8(s, i) ==
    IF i > Len(s) THEN TRUE
    ELSE LET c == s[i]
             n == CASE c < 128 -> 1
                    [] c >= 194 /\ c <= 223 -> 2
                    [] c >= 224 /\ c <= 239 -> 3
                    [] c >= 240 /\ c <= 244 -> 4
                    [] OTHER -> 0
         IN  /\ n > 0
             /\ i + n - 1 <= Len(s)
             /\ \A j \in (i + 1)..(i + n - 1) : s[j] >= 128 /\ s[j] <= 191
             /\ Utf8(s, i + n)

ReadStr(b, p) ==
    LET n == ReadU64(b, p) IN
    IF ~n.ok THEN n
    ELSE IF ~CanRead(b, n.pos, n.val) THEN DecErr("UnexpectedEof", Len(b))
    ELSE LET s == SubSeq(b, n.pos + 1, n.pos + n.val) IN
         IF Utf8(s, 1) THEN DecOk(s, n.pos + n.val)
         ELSE DecErr("InvalidUtf8Encoding", n.pos + n.val)

ReadPayload(b, p, t) ==
    IF t = TString
    THEN LET s == ReadStr(b, p) IN
         IF s.ok THEN DecOk([type |-> TString, val |-> s.val], s.pos) ELSE s
    ELSE IF ~CanRead(b, p, 1) THEN DecErr("UnexpectedEof", Len(b))
         ELSE DecOk([type |-> TU8, val |-> <<b[p + 1]>>], p + 1)

\* Box<dyn Serializeable>: a one-entry map from the type's tag to its payload
ReadValue(b, p) ==
    LET n == ReadU64(b, p) IN
    IF ~n.ok THEN n
    ELSE IF n.val = 0 THEN DecErr("Custom", n.pos)
    ELSE LET t == ReadStr(b, n.pos) IN
         IF ~t.ok THEN t
         ELSE IF \E ty \in Types : TagOf(ty) = t.val
              THEN ReadPayload(b, t.pos, CHOOSE ty \in Types : TagOf(ty) = t.val)
              ELSE DecErr("Custom", t.pos)

RECURSIVE ReadEntries(_, _, _, _)
ReadEntries(b, p, n, acc) ==
    IF n = 0 THEN DecOk(acc, p)
    ELSE LET k == ReadStr(b, p) IN
         IF ~k.ok THEN k
         ELSE LET v == ReadValue(b, k.pos) IN
              IF ~v.ok THEN v
              ELSE ReadEntries(b, v.pos, n - 1, Put(acc, k.val, v.val))

\* bincode::deserialize_from(source) at offset p of the bytes b
deserialize_from(b, p) ==
    LET n == ReadU64(b, p) IN
    IF ~n.ok THEN n ELSE ReadEntries(b, n.pos, n.val, EmptyMap)

(***************************************************************************)
(* Frame (frame.rs)                                                        *)
(***************************************************************************)
NotOfType == "Key is not of specified type"
NoKeyInParents == "No key in frame or parents"
NoKeyInFrame == "No key in frame"

\* the error taxonomy the messages stand for
KeyNotFound(r) == ~r.ok /\ r.err \in {NoKeyInParents, NoKeyInFrame}
TypeMismatch(r) == ~r.ok /\ r.err = NotOfType

GetOk(v) == [ok |-> TRUE, val |-> v, err |-> ""]
GetErr(e) == [ok |-> FALSE, val |-> <<>>, err |-> e]

\* Frame::new / Frame::new_with_parent
Frame_new(parent) == [data |-> EmptyMap, parent |-> parent, shared |-> FALSE]

\* the downcast of a stored value to T
Downcast(v, T) == IF v.type = T THEN GetOk(v.val) ELSE GetErr(NotOfType)

\* mutant: the lookup stops at the parent's own storage
get_shallow(fs, f, key, T) ==
    IF key \in DOMAIN fs[f].data
    THEN Downcast(fs[f].data[key], T)
    ELSE IF fs[f].parent # NoParent
         THEN IF key \in DOMAIN fs[fs[f].parent].data
                   /\ Downcast(fs[fs[f].parent].data[key], T).ok
              THEN Downcast(fs[fs[f].parent].data[key], T)
              ELSE GetErr(NoKeyInParents)
         ELSE GetErr(NoKeyInFrame)

\* mutant: a local value of another type sends the lookup on to the parent
RECURSIVE get_fallthrough(_, _, _, _)
get_fallthrough(fs, f, key, T) ==
    IF key \in DOMAIN fs[f].data /\ Downcast(fs[f].data[key], T).ok
    THEN Downcast(fs[f].data[key], T)
    ELSE IF fs[f].parent # NoParent
         THEN LET x == get_fallthrough(fs, fs[f].parent, key, T) IN
              IF x.ok THEN x ELSE GetErr(NoKeyInParents)
         ELSE IF key \in DOMAIN fs[f].data
              THEN GetErr(NotOfType)
              ELSE GetErr(NoKeyInFrame)

\* mutant: the error of the parent's lookup is handed on as it is
RECURSIVE get_propagate(_, _, _, _)
get_propagate(fs, f, key, T) ==
    IF key \in DOMAIN fs[f].data
    THEN Downcast(fs[f].data[key], T)
    ELSE IF fs[f].parent # NoParent
         THEN get_propagate(fs, fs[f].parent, key, T)
         ELSE GetErr(NoKeyInFrame)

RECURSIVE get(_, _, _, _)
get(fs, f, key, T) ==
    IF key \in DOMAIN fs[f].data
    THEN Downcast(fs[f].data[key], T)
    ELSE IF fs[f].parent # NoParent
         THEN LET x == get(fs, fs[f].parent, key, T) IN
              IF x.ok THEN x ELSE GetErr(NoKeyInParents)
         ELSE GetErr(NoKeyInFrame)

\* mutant: get_mut falls back on the ancestors as get does
get_mut_chain(fs, f, key, T) == get(fs, f, key, T)

get_mut(fs, f, key, T) ==
    IF key \in DOMAIN fs[f].data
    THEN Downcast(fs[f].data[key], T)
    ELSE GetErr(NoKeyInFrame)

\* mutant: a key the parent holds is overwritten in the parent
set_through(fs, f, key, value) ==
    IF /\ key \notin DOMAIN fs[f].data
       /\ fs[f].parent # NoParent
       /\ key \in DOMAIN fs[fs[f].parent].data
    THEN [fs EXCEPT ![fs[f].parent].data = Put(@, key, value)]
    ELSE [fs EXCEPT ![f].data = Put(@, key, value)]

\* mutant: a key the frame already holds keeps its value
set_if_absent(fs, f, key, value) ==
    IF key \in DOMAIN fs[f].data
    THEN fs
    ELSE [fs EXCEPT ![f].data = Put(fs[f].data, key, value)]

\* the arena after f.set(key, value)
set(fs, f, key, value) ==
    [fs EXCEPT ![f].data = Put(fs[f].data, key, value)]

\* mutant: the record holds what get sees, the parent's entries included
write_to_stream_flat(fs, f, o) ==
    IF fs[f].parent = NoParent
    THEN serialize_into(fs[f].data, o)
    ELSE LET m == fs[f].data @@ fs[fs[f].parent].data
         IN  serialize_into(m, CHOOSE x \in Orders(m) : TRUE)

\* the bytes f.write_to_stream appends to its destination
write_to_stream(fs, f, o) == serialize_into(fs[f].data, o)

\* mutant: the decoded entries are inserted into the map the frame had
read_from_stream_merge(fs, f, b, p) ==
    LET d == deserialize_from(b, p) IN
    IF d.ok
    THEN [ok |-> TRUE, kind |-> "", msg |-> "", data |-> d.val @@ fs[f].data,
          pos |-> d.pos]
    ELSE [ok |-> FALSE, kind |-> "Other", msg |-> d.err,
          data |-> fs[f].data, pos |-> d.pos]

\* mutant: a successful read leaves the source where it was
read_from_stream_rewind(fs, f, b, p) ==
    LET d == deserialize_from(b, p) IN
    IF d.ok
    THEN [ok |-> TRUE, kind |-> "", msg |-> "", data |-> d.val, pos |-> p]
    ELSE [ok |-> FALSE, kind |-> "Other", msg |-> d.err,
          data |-> fs[f].data, pos |-> d.pos]

\* f.read_from_stream(source) with the source at offset p of b: the result,
\* the frame's data afterwards and the source's new offset
read_from_stream(fs, f, b, p) ==
    LET d == deserialize_from(b, p) IN
    IF d.ok
    THEN [ok |-> TRUE, kind |-> "", msg |-> "", data |-> d.val, pos |-> d.pos]
    ELSE [ok |-> FALSE, kind |-> "Other", msg |-> d.err,
          data |-> fs[f].data, pos |-> d.pos]

(***************************************************************************)
(* The codec on one frame: f.write_to_stream(&mut stream), then            *)
(* g.read_from_stream(&mut stream.as_slice())   (frame.rs doc test)        *)
(***************************************************************************)
ANC == 1
SRC == 2
DST == 3

NoCall == [op |-> "none"]

Idle == [pc |-> "idle"]
NoFile == [open |-> FALSE]
NoDisk == [exists |-> FALSE, bytes |-> <<>>]

StrEmpty == [type |-> TString, val |-> <<>>]        \* String::new()
StrE == [type |-> TString, val |-> <<195, 169>>]    \* a String of one two-byte character

\* the local maps of the frame that is written
CodecMaps == UNION {[S -> Values \cup {StrEmpty, StrE}] : S \in SUBSET Keys}

CodecInit ==
    /\ \E fd \in CodecMaps, gd \in {EmptyMap, (K1 :> U2)},
          fp \in {NoParent, ANC}, gp \in {NoParent, ANC} :
          frames = << [data |-> (K2 :> U2), parent |-> NoParent, shared |-> TRUE],
                      [data |-> fd, parent |-> fp, shared |-> FALSE],
                      [data |-> gd, parent |-> gp, shared |-> FALSE] >>
    /\ stream = <<>>
    /\ sent = <<>>
    /\ last = NoCall
    /\ disk = NoDisk /\ file = NoFile /\ ondisk = <<>> /\ damaged = FALSE
    /\ reads = <<>>
    /\ tray = [start_module |-> "none", modules |-> <<>>]
    /\ run = Idle

Codec_write ==
    /\ sent = <<>>
    /\ \E o \in Orders(frames[SRC].data) :
          /\ stream' = stream \o write_to_stream(frames, SRC, o)
          /\ sent' = Append(sent, frames[SRC].data)
    /\ last' = [op |-> "write_to_stream", frame |-> SRC]
    /\ UNCHANGED <<frames, fileVars, trayVars>>

\* Vec::truncate: the stream loses the tail of its record
Codec_truncate ==
    /\ sent # <<>>
    /\ last.op = "write_to_stream"
    /\ \E n \in 0..(Len(stream) - 1) : stream' = SubSeq(stream, 1, n)
    /\ last' = [op |-> "truncate"]
    /\ UNCHANGED <<frames, sent, fileVars, trayVars>>

Codec_read ==
    /\ LET r == read_from_stream(frames, DST, stream, 0) IN
          /\ frames' = [frames EXCEPT ![DST].data = r.data]
          /\ last' = [op |-> "read_from_stream", frame |-> DST,
                      before |-> frames[DST].data,
                      whole |-> (sent # <<>> /\ last.op # "truncate"
                                   /\ (last.op = "read_from_stream" => last.whole)),
                      ok |-> r.ok, kind |-> r.kind, msg |-> r.msg]
    /\ UNCHANGED <<stream, sent, fileVars, trayVars>>

CodecNext == Codec_write \/ Codec_truncate \/ Codec_read

SpecCodec == CodecInit /\ [][CodecNext]_vars


\* C3: round trip. Writing a frame f of text and byte values with
\* write_to_stream and reading the whole record into a fresh frame g succeeds,
\* and g's local map is f's: the same keys, each with the same concrete type
\* and value, which get::<T> on g returns.
C3_RoundTrip ==
    (/\ last.op = "read_from_stream"
     /\ last.whole
     /\ last.before = EmptyMap
     /\ frames[DST].parent = NoParent)
    => /\ last.ok
       /\ DOMAIN frames[DST].data = DOMAIN frames[SRC].data
       /\ \A k \in DOMAIN frames[SRC].data :
             /\ frames[DST].data[k].type = frames[SRC].data[k].type
             /\ get(frames, DST, k, frames[SRC].data[k].type)
                    = GetOk(frames[SRC].data[k].val)

C3_Witness ==
    /\ last.op = "read_from_stream"
    /\ last.whole
    /\ last.before = EmptyMap
    /\ frames[DST].parent = NoParent
    /\ last.ok
    /\ frames[SRC].data = (K1 :> StrA) @@ (K2 :> U2)
    /\ frames[DST].data = frames[SRC].data

(***************************************************************************)
(* File (file.rs) over the one path of the model.  A BufWriter holds what  *)
(* was written until the File is dropped; the records of the model never   *)
(* fill its buffer.                                                        *)
(***************************************************************************)
MaxWrites == 2

NoReader == [some |-> FALSE, pos |-> 0]
NoWriter == [some |-> FALSE, buf |-> <<>>, pending |-> <<>>]

\* the frames a caller hands to write_frame
FileFrames ==
    << [data |-> (K3 :> U2), parent |-> NoParent, shared |-> TRUE],
       [data |-> EmptyMap, parent |-> NoParent, shared |-> FALSE],
       [data |-> (K1 :> StrA), parent |-> ANC, shared |-> FALSE],
       [data |-> (K1 :> U1) @@ (K2 :> StrA), parent |-> NoParent, shared |-> FALSE],
       [data |-> (K1 :> U1) @@ (K2 :> StrA), parent |-> ANC, shared |-> FALSE] >>

RECURSIVE Concat(_)
Concat(recs) ==
    IF recs = <<>> THEN <<>> ELSE Head(recs).bytes \o Concat(Tail(recs))

\* the number of leading records of recs that lie wholly within n bytes
RECURSIVE Within(_, _)
Within(recs, n) ==
    IF recs = <<>> \/ Len(Head(recs).bytes) > n THEN 0
    ELSE 1 + Within(Tail(recs), n - Len(Head(recs).bytes))

FileInit ==
    /\ frames = FileFrames
    /\ stream = <<>>
    /\ sent = <<>>
    /\ last = NoCall
    /\ disk = NoDisk
    /\ file = NoFile
    /\ ondisk = <<>>
    /\ damaged = FALSE
    /\ reads = <<>>
    /\ tray = [start_module |-> "none", modules |-> <<>>]
    /\ run = Idle

\* mutant: a File opened for appending also gets a reader
OpenAs_both(mode) ==
    [open |-> TRUE, mode |-> mode,
     reader |-> IF mode \in {"Read", "Append"}
                THEN [some |-> TRUE, pos |-> 0] ELSE NoReader,
     writer |-> IF mode = "Read" THEN NoWriter
                ELSE [some |-> TRUE, buf |-> <<>>, pending |-> <<>>]]

\* the File that File::new builds around the opened file f:
\* Read => File{reader: Some(BufReader::new(f)), writer: None},
\* _    => File{reader: None, writer: Some(BufWriter::new(f))}
OpenAs(mode) ==
    [open |-> TRUE, mode |-> mode,
     reader |-> IF mode = "Read" THEN [some |-> TRUE, pos |-> 0] ELSE NoReader,
     writer |-> IF mode = "Read" THEN NoWriter
                ELSE [some |-> TRUE, buf |-> <<>>, pending |-> <<>>]]

\* mutant: Write opens without truncate(true)
OpenOptions_keep(mode, bytes) == bytes

\* what an existing or created file holds once OpenOptions has opened it:
\* Write is create(true).truncate(true).write(true), Append is
\* create(true).append(true), Read is read(true)
OpenOptions(mode, bytes) == IF mode = "Write" THEN <<>> ELSE bytes

\* File::new(filename, mode): OpenOptions...open(fname), then the match on mode.
\* Read of a path that does not exist panics and creates nothing.  The model
\* does not append to a file whose last record is broken: what follows a
\* broken record has no record boundaries the history could name.
File_new(mode) ==
    /\ ~file.open
    /\ mode = "Append" => ~damaged
    /\ IF mode = "Read" /\ ~disk.exists
       THEN /\ last' = [op |-> "File::new", mode |-> mode, panic |-> TRUE]
            /\ UNCHANGED <<disk, file, ondisk, damaged, reads>>
       ELSE /\ last' = [op |-> "File::new", mode |-> mode, panic |-> FALSE]
            /\ disk' = [exists |-> TRUE, bytes |-> OpenOptions(mode, disk.bytes)]
            /\ ondisk' = IF mode = "Write" THEN <<>> ELSE ondisk
            /\ damaged' = IF mode = "Write" THEN FALSE ELSE damaged
            /\ file' = OpenAs(mode)
            /\ reads' = <<>>
    /\ UNCHANGED <<frameVars, trayVars>>

\* mutant: the end of the stream inside a record also counts as the end
ReadResult_anyeof(r, at) ==
    IF r.ok
    THEN [tag |-> "Some", at |-> at, kind |-> "", msg |-> "",
          frame |-> [Frame_new(NoParent) EXCEPT !.data = r.data]]
    ELSE IF r.msg = "UnexpectedEof"
         THEN [tag |-> "None", at |-> at, kind |-> "", msg |-> "",
               frame |-> Frame_new(NoParent)]
         ELSE [tag |-> "Err", at |-> at, kind |-> r.kind, msg |-> r.msg,
               frame |-> Frame_new(NoParent)]

\* what File::read_frame returns, from the result r of Frame::read_from_stream
ReadResult(r, at) ==
    IF r.ok
    THEN [tag |-> "Some", at |-> at, kind |-> "", msg |-> "",
          frame |-> [Frame_new(NoParent) EXCEPT !.data = r.data]]
    ELSE IF r.kind = "UnexpectedEof"
         THEN [tag |-> "None", at |-> at, kind |-> "", msg |-> "",
               frame |-> Frame_new(NoParent)]
         ELSE [tag |-> "Err", at |-> at, kind |-> r.kind, msg |-> r.msg,
               frame |-> Frame_new(NoParent)]

read_frame ==
    /\ file.open
    /\ Len(reads) <= MaxWrites + 1
    /\ IF file.reader.some
       THEN LET fr == <<Frame_new(NoParent)>>
                r == read_from_stream(fr, 1, disk.bytes, file.reader.pos)
            IN  /\ reads' = Append(reads, ReadResult(r, file.reader.pos))
                /\ file' = [file EXCEPT !.reader.pos = r.pos]
                /\ last' = [op |-> "read_frame", panic |-> FALSE]
       ELSE /\ last' = [op |-> "read_frame", panic |-> TRUE]
            /\ UNCHANGED <<file, reads>>
    /\ UNCHANGED <<frameVars, disk, ondisk, damaged, trayVars>>

\* mutant: write_frame on a File without a writer returns Ok(()) and does nothing
write_frame_quiet(f) ==
    /\ file.open
    /\ Len(ondisk) + Len(file.writer.pending) < MaxWrites
    /\ IF file.writer.some
       THEN \E o \in Orders(frames[f].data) :
               LET bytes == write_to_stream(frames, f, o) IN
               /\ file' = [file EXCEPT
                              !.writer.buf = @ \o bytes,
                              !.writer.pending =
                                  Append(@, [frame |-> f, data |-> frames[f].data,
                                             bytes |-> bytes])]
               /\ last' = [op |-> "write_frame", panic |-> FALSE]
       ELSE /\ last' = [op |-> "write_frame", panic |-> FALSE]
            /\ UNCHANGED file
    /\ UNCHANGED <<frameVars, disk, ondisk, damaged, reads, trayVars>>

write_frame(f) ==
    /\ file.open
    /\ Len(ondisk) + Len(file.writer.pending) < MaxWrites
    /\ IF file.writer.some
       THEN \E o \in Orders(frames[f].data) :
               LET bytes == write_to_stream(frames, f, o) IN
               /\ file' = [file EXCEPT
                              !.writer.buf = @ \o bytes,
                              !.writer.pending =
                                  Append(@, [frame |-> f, data |-> frames[f].data,
                                             bytes |-> bytes])]
               /\ last' = [op |-> "write_frame", panic |-> FALSE]
       ELSE /\ last' = [op |-> "write_frame", panic |-> TRUE]
            /\ UNCHANGED file
    /\ UNCHANGED <<frameVars, disk, ondisk, damaged, reads, trayVars>>

\* the File goes out of scope: the BufWriter flushes what it holds
File_drop ==
    /\ file.open
    /\ disk' = [disk EXCEPT !.bytes = @ \o file.writer.buf]
    /\ ondisk' = ondisk \o file.writer.pending
    /\ file' = NoFile
    /\ reads' = <<>>
    /\ last' = [op |-> "drop", mode |-> file.mode, old |-> Len(ondisk),
                new |-> Len(file.writer.pending)]
    /\ UNCHANGED <<frameVars, damaged, trayVars>>

\* outside the program: the closed file is cut short
Disk_truncate ==
    /\ ~file.open /\ disk.exists /\ ~damaged
    /\ \E n \in 0..(Len(disk.bytes) - 1) :
          /\ disk' = [disk EXCEPT !.bytes = SubSeq(@, 1, n)]
          /\ ondisk' = SubSeq(ondisk, 1, Within(ondisk, n))
          /\ damaged' = (n # Len(Concat(SubSeq(ondisk, 1, Within(ondisk, n)))))
    /\ last' = [op |-> "truncate"]
    /\ UNCHANGED <<frameVars, file, reads, trayVars>>

\* outside the program: the first key of a stored record becomes invalid UTF-8
Disk_corrupt ==
    /\ ~file.open /\ disk.exists /\ ~damaged
    /\ \E r \in 1..Len(ondisk) :
          /\ ondisk[r].data # EmptyMap
          /\ LET at == Len(Concat(SubSeq(ondisk, 1, r - 1))) + 2 * U64Bytes + 1 IN
                disk' = [disk EXCEPT !.bytes[at] = 255]
          /\ ondisk' = SubSeq(ondisk, 1, r - 1)
    /\ damaged' = TRUE
    /\ last' = [op |-> "corrupt"]
    /\ UNCHANGED <<frameVars, file, reads, trayVars>>

FileNext ==
    \/ \E mode \in {"Read", "Write", "Append"} : File_new(mode)
    \/ read_frame
    \/ \E f \in DOMAIN frames : write_frame(f)
    \/ File_drop
    \/ Disk_truncate
    \/ Disk_corrupt

SpecFile == FileInit /\ [][FileNext]_vars

\* C1: after N frames are written and the file is closed, a reader gets
\* Ok(Some(frame)) from each of its first N read_frame calls and Ok(None)
\* from call N+1 (with N = 0, from the first call): the end of the stream at
\* a frame boundary is Ok(None), never an error.
C1_StreamBoundary ==
    (file.open /\ file.reader.some /\ ~damaged)
    => \A i \in 1..Len(reads) :
          /\ i <= Len(ondisk) => reads[i].tag = "Some"
          /\ i = Len(ondisk) + 1 => reads[i].tag = "None"

\* C2: when the bytes left at the read position are not empty and are not one
\* whole well-formed record (the stream ends inside the record, or the record
\* is malformed), read_frame returns Err, neither Ok(None) nor Ok(Some).
C2_BrokenRecordIsErr ==
    \A i \in 1..Len(reads) :
        (/\ damaged
         /\ reads[i].at = Len(Concat(ondisk))
         /\ reads[i].at < Len(disk.bytes))
        => reads[i].tag = "Err"

C2_Witness ==
    /\ damaged
    /\ Len(ondisk) = 1
    /\ Len(reads) = 2
    /\ reads[1].tag = "Some"
    /\ reads[2].at = Len(Concat(ondisk))
    /\ reads[2].at < Len(disk.bytes)
    /\ reads[2].tag = "Err"
    /\ reads[2].msg = "UnexpectedEof"

\* C13: read_frame on a File opened in Write or Append mode panics, and so
\* does write_frame on a File opened in Read mode: the call returns no
\* result, and leaves the File, its buffer and position and the file on disk
\* as they were.  In the right mode neither call panics.
C13_WrongModePanics ==
    [][/\ last'.op = "read_frame" =>
             IF file.mode \in {"Write", "Append"}
             THEN last'.panic /\ UNCHANGED <<disk, file, reads, ondisk, damaged>>
             ELSE ~last'.panic /\ Len(reads') = Len(reads) + 1
       /\ last'.op = "write_frame" =>
             IF file.mode = "Read"
             THEN last'.panic /\ UNCHANGED <<disk, file, reads, ondisk, damaged>>
             ELSE ~last'.panic /\ Len(file'.writer.pending) = Len(file.writer.pending) + 1]_vars

C13_Witness ==
    /\ last.op = "read_frame"
    /\ last.panic
    /\ file.open
    /\ file.mode = "Append"
    /\ Len(file.writer.pending) = 1
    /\ reads = <<>>

\* C14: an open File holds exactly one of a reader and a writer, the reader
\* in Read mode and the writer in Write and Append mode, and no call of
\* read_frame or write_frame, whatever it returns, changes which.
C14_FileModeInvariant ==
    /\ [](file.open =>
            /\ file.reader.some # file.writer.some
            /\ file.reader.some <=> file.mode = "Read"
            /\ file.writer.some <=> file.mode \in {"Write", "Append"})
    /\ [][last'.op \in {"read_frame", "write_frame"} =>
             /\ file'.open
             /\ file'.mode = file.mode
             /\ file'.reader.some = file.reader.some
             /\ file'.writer.some = file.writer.some]_vars

C14_Witness ==
    /\ file.open
    /\ file.mode = "Read"
    /\ file.reader.some /\ ~file.writer.some
    /\ last.op = "write_frame"
    /\ last.panic
    /\ Len(reads) = 2
    /\ reads[1].tag = "Some"
    /\ reads[2].tag = "Err"

\* C15: when frames f1..fN were written in that order, the k-th read_frame
\* (1 <= k <= N) returns Ok(Some(g)) with g's local map equal to fk's; it
\* starts where record k starts and leaves the reader where record k ends,
\* so no record is skipped or returned twice.
C15_ReadOrder ==
    (file.open /\ file.reader.some) =>
        /\ \A k \in 1..Len(reads) :
              k <= Len(ondisk) =>
                  /\ reads[k].tag = "Some"
                  /\ reads[k].frame.data = ondisk[k].data
                  /\ reads[k].at = Len(Concat(SubSeq(ondisk, 1, k - 1)))
        /\ Len(reads) <= Len(ondisk) =>
              file.reader.pos = Len(Concat(SubSeq(ondisk, 1, Len(reads))))

C15_Witness ==
    /\ file.open /\ file.reader.some
    /\ Len(ondisk) = 2
    /\ Len(reads) = 2
    /\ ondisk[1].data = (K1 :> StrA)
    /\ ondisk[2].data = (K1 :> U1) @@ (K2 :> StrA)
    /\ reads[1].frame.data = (K1 :> StrA)
    /\ reads[2].frame.data = (K1 :> U1) @@ (K2 :> StrA)
    /\ file.reader.pos = Len(disk.bytes)

\* the records written so far: those on disk and those in the BufWriter
Written == ondisk \o (IF file.open THEN file.writer.pending ELSE <<>>)

\* the records a map can be written as, one for each order of iteration
Encodings(m) == {serialize_into(m, o) : o \in Orders(m)}

\* a frame read back has no ancestor, and a key that the written frame did
\* not hold locally is not found in it
DecodedHidesAncestors ==
    (file.open /\ file.reader.some) =>
        \A k \in 1..Len(reads) :
            k <= Len(ondisk) =>
                /\ reads[k].frame.parent = NoParent
                /\ \A key \in Keys \cup {K3}, T \in Types :
                      key \notin DOMAIN frames[ondisk[k].frame].data =>
                          KeyNotFound(get(<<reads[k].frame>>, 1, key, T))

\* C17 as stated: the bytes of write_to_stream depend only on the local map,
\* so two frames with equal local maps and different ancestors (or none) are
\* written as the same bytes, and a key only the ancestor held is not found
\* in the frame decoded from a child's record.
C17_SameRecord ==
    /\ \A i, j \in DOMAIN Written :
          (/\ frames[Written[i].frame].data = frames[Written[j].frame].data
           /\ frames[Written[i].frame].parent # frames[Written[j].frame].parent)
          => Written[i].bytes = Written[j].bytes
    /\ DecodedHidesAncestors

\* C17 (amended): the bytes of write_to_stream depend only on the local map
\* and the order in which the HashMap iterates, never on the ancestor: every
\* record is an encoding of the local map alone and decodes to it, two frames
\* with equal local maps and different ancestors (or none) are written as
\* encodings of the same map, of the same length, the same bytes when the map
\* has at most one key; and a key only the ancestor held is not found in the
\* frame decoded from a child's record.
C17_LocalMapOnly ==
    /\ \A i \in DOMAIN Written :
          LET r == Written[i]
              d == deserialize_from(r.bytes, 0)
          IN  /\ r.bytes \in Encodings(frames[r.frame].data)
              /\ d.ok
              /\ d.val = frames[r.frame].data
              /\ d.pos = Len(r.bytes)
    /\ \A i, j \in DOMAIN Written :
          (/\ frames[Written[i].frame].data = frames[Written[j].frame].data
           /\ frames[Written[i].frame].parent # frames[Written[j].frame].parent)
          => /\ Written[i].bytes \in Encodings(frames[Written[j].frame].data)
             /\ Len(Written[i].bytes) = Len(Written[j].bytes)
             /\ Cardinality(DOMAIN frames[Written[i].frame].data) <= 1 =>
                   Written[i].bytes = Written[j].bytes
    /\ DecodedHidesAncestors

C17_Witness ==
    /\ file.open /\ file.reader.some
    /\ Len(ondisk) = 2
    /\ ondisk[1].frame = 4
    /\ ondisk[2].frame = 5
    /\ ondisk[1].bytes # ondisk[2].bytes
    /\ Len(reads) = 2
    /\ reads[1].tag = "Some" /\ reads[2].tag = "Some"
    /\ reads[1].frame = reads[2].frame
    /\ get(frames, 5, K3, TU8) = GetOk(<<2>>)
    /\ KeyNotFound(get(<<reads[2].frame>>, 1, K3, TU8))

\* the local maps of the frames a reader of the bytes b gets from read_frame,
\* from offset p up to its first result that is not Ok(Some)
RECURSIVE ReadAll(_, _)
ReadAll(b, p) ==
    LET r == read_from_stream(<<Frame_new(NoParent)>>, 1, b, p) IN
    IF ReadResult(r, p).tag = "Some"
    THEN <<ReadResult(r, p).frame.data>> \o ReadAll(b, r.pos)
    ELSE <<>>

\* the local maps of the records recs
MapsOf(recs) == [i \in DOMAIN recs |-> recs[i].data]

\* C22: over a path that holds N frames, File::new in Write mode truncates:
\* the file is empty while the File is open, and after M frames are written
\* and the File is closed a reader gets exactly those M frames; in Append
\* mode the file is kept, and after closing a reader gets the N old frames
\* followed by the M new ones, in order; in Read mode on a path that does
\* not exist File::new panics, opens nothing and creates no file.
C22_OpenModes ==
    /\ []((file.open /\ file.mode = "Write") =>
             disk = [exists |-> TRUE, bytes |-> <<>>] /\ ondisk = <<>>)
    /\ []((disk.exists /\ ~damaged) =>
             disk.bytes = Concat(ondisk) /\ ReadAll(disk.bytes, 0) = MapsOf(ondisk))
    /\ [][last'.op = "File::new" =>
             CASE last'.mode = "Write" ->
                    ~last'.panic /\ file'.open
                    /\ disk' = [exists |-> TRUE, bytes |-> <<>>]
               [] last'.mode = "Append" ->
                    ~last'.panic /\ file'.open
                    /\ disk' = [exists |-> TRUE, bytes |-> disk.bytes]
                    /\ ondisk' = ondisk
               [] last'.mode = "Read" ->
                    /\ last'.panic = ~disk.exists
                    /\ file'.open = disk.exists
                    /\ disk' = disk]_vars
    /\ [][(last'.op = "drop" /\ file.writer.some) =>
             /\ ondisk' = ondisk \o file.writer.pending
             /\ disk'.bytes = disk.bytes \o Concat(file.writer.pending)
             /\ ReadAll(disk'.bytes, 0)
                   = ReadAll(disk.bytes, 0) \o MapsOf(file.writer.pending)]_vars

C22_Witness ==
    /\ last.op = "drop"
    /\ last.mode = "Append"
    /\ last.old = 1
    /\ last.new = 1
    /\ Len(ondisk) = 2
    /\ ondisk[1].data = (K1 :> U1) @@ (K2 :> StrA)
    /\ ondisk[2].data = (K1 :> StrA)
    /\ ReadAll(disk.bytes, 0) = <<(K1 :> U1) @@ (K2 :> StrA), (K1 :> StrA)>>

\* C23: read_from_stream is all-or-nothing on local storage.  It succeeds
\* exactly on a whole record; when it fails the local map is what it was
\* before the call; when it succeeds the local map is the decoded map, so a
\* key that was local before and is not in the record is gone; either way
\* the frame's ancestor and every other frame are unchanged.
C23_AllOrNothing ==
    [][last'.op = "read_from_stream" =>
         LET g == last'.frame
             whole == sent # <<>> /\ stream \in Encodings(sent[1])
         IN  /\ last'.ok = whole
             /\ last'.before = frames[g].data
             /\ ~last'.ok => frames'[g].data = frames[g].data
             /\ last'.ok =>
                   /\ frames'[g].data = sent[1]
                   /\ \A k \in DOMAIN frames[g].data \ DOMAIN sent[1], T \in Types :
                         /\ k \notin DOMAIN frames'[g].data
                         /\ KeyNotFound(get_mut(frames', g, k, T))
             /\ frames'[g].parent = frames[g].parent
             /\ \A h \in DOMAIN frames \ {g} : frames'[h] = frames[h]]_vars

C23_Witness ==
    /\ last.op = "read_from_stream"
    /\ last.ok
    /\ last.before = (K1 :> U2)
    /\ frames[SRC].data = (K2 :> StrA)
    /\ frames[DST].data = (K2 :> StrA)
    /\ frames[DST].parent = ANC
    /\ KeyNotFound(get_mut(frames, DST, K1, TU8))

(***************************************************************************)
(* Frames with ancestors.  GRAND and PARENT were filled with set and then  *)
(* moved into an Arc (shared): Rust hands out no &mut to them, so set,     *)
(* get_mut and read_from_stream are called on the owned frame CHILD only;  *)
(* get is called on all three.                                             *)
(***************************************************************************)
GRAND == 1
PARENT == 2
CHILD == 3

\* what an ancestor was given before it was shared
AncestorMaps == {m \in LocalMaps : DOMAIN m \subseteq {K1}}

\* the records read_from_stream is given in this part of the model
SourceMaps == {EmptyMap, (K2 :> StrA)}

FrameInit ==
    /\ \E gd \in AncestorMaps, pd \in AncestorMaps :
          frames = << [Frame_new(NoParent) EXCEPT !.data = gd, !.shared = TRUE],
                      [Frame_new(GRAND) EXCEPT !.data = pd, !.shared = TRUE],
                      Frame_new(PARENT) >>
    /\ stream = <<>>
    /\ sent = <<>>
    /\ last = NoCall
    /\ disk = NoDisk
    /\ file = NoFile
    /\ ondisk = <<>>
    /\ damaged = FALSE
    /\ reads = <<>>
    /\ tray = [start_module |-> "none", modules |-> <<>>]
    /\ run = Idle

Owned == {f \in DOMAIN frames : ~frames[f].shared}

Frame_get(f, key, T) ==
    /\ last' = [op |-> "get", frame |-> f, key |-> key, type |-> T,
                res |-> get(frames, f, key, T)]
    /\ UNCHANGED <<frames, stream, sent, fileVars, trayVars>>

\* mutant: the assignment goes to a copy of the value, the frame keeps the old one
assign_copy(fs, f, key, r, w) == fs

\* the arena after `*v = w` through the reference r that get_mut returned
assign(fs, f, key, r, w) ==
    IF r.ok /\ w.some
    THEN [fs EXCEPT ![f].data[key] = w.value]
    ELSE fs

\* get_mut::<T>(key), and what the caller does with the &mut T: nothing, or
\* the assignment of another value of type T
Frame_get_mut(f, key, T) ==
    /\ f \in Owned
    /\ LET r == get_mut(frames, f, key, T) IN
       \E w \in {[some |-> FALSE, value |-> U1]}
                  \cup {[some |-> TRUE, value |-> v] : v \in {x \in Values : x.type = T}} :
          /\ w.some => r.ok
          /\ frames' = assign(frames, f, key, r, w)
          /\ last' = [op |-> "get_mut", frame |-> f, key |-> key, type |-> T,
                      res |-> r, wrote |-> w]
    /\ UNCHANGED <<stream, sent, fileVars, trayVars>>

Frame_set(f, key, value) ==
    /\ f \in Owned
    /\ frames' = set(frames, f, key, value)
    /\ last' = [op |-> "set", frame |-> f, key |-> key, value |-> value,
                before |-> frames[f].data]
    /\ UNCHANGED <<stream, sent, fileVars, trayVars>>

\* f.read_from_stream(source): the source holds the record of the map m,
\* whole or cut one byte short
Frame_read_from_stream(f, m, cut) ==
    /\ f \in Owned
    /\ \E o \in Orders(m) :
          LET rec == serialize_into(m, o)
              src == IF cut THEN SubSeq(rec, 1, Len(rec) - 1) ELSE rec
              r == read_from_stream(frames, f, src, 0)
          IN  /\ frames' = [frames EXCEPT ![f].data = r.data]
              /\ last' = [op |-> "read_from_stream", frame |-> f,
                          before |-> frames[f].data, whole |-> ~cut,
                          ok |-> r.ok, kind |-> r.kind, msg |-> r.msg]
    /\ UNCHANGED <<stream, sent, fileVars, trayVars>>

FrameNext ==
    \/ \E f \in DOMAIN frames, key \in Keys, T \in Types : Frame_get(f, key, T)
    \/ \E f \in DOMAIN frames, key \in Keys, T \in Types : Frame_get_mut(f, key, T)
    \/ \E f \in DOMAIN frames, key \in Keys, v \in Values : Frame_set(f, key, v)
    \/ \E f \in DOMAIN frames, m \in SourceMaps, cut \in BOOLEAN :
          Frame_read_from_stream(f, m, cut)

SpecFrame == FrameInit /\ [][FrameNext]_vars

\* the frames a lookup on f goes through, nearest first
RECURSIVE Chain(_, _)
Chain(fs, f) ==
    IF fs[f].parent = NoParent THEN <<f>> ELSE <<f>> \o Chain(fs, fs[f].parent)

Holders(fs, f, key) ==
    {i \in 1..Len(Chain(fs, f)) : key \in DOMAIN fs[Chain(fs, f)[i]].data}

\* the value of the nearest frame of the chain that holds the key
Nearest(fs, f, key) ==
    LET i == CHOOSE i \in Holders(fs, f, key) : \A j \in Holders(fs, f, key) : i <= j
    IN  fs[Chain(fs, f)[i]].data[key]

\* C4: get::<T>(key) looks in local storage first and, only when the key is
\* absent there, in the ancestors from nearest to farthest, at any depth: it
\* returns Ok exactly when the nearest frame of the chain holding the key
\* holds a T, and then that frame's value.
C4_NearestWins ==
    last.op = "get" =>
        LET f == last.frame
            key == last.key
        IN  IF Holders(frames, f, key) # {}
                 /\ Nearest(frames, f, key).type = last.type
            THEN last.res = GetOk(Nearest(frames, f, key).val)
            ELSE ~last.res.ok

C4_Witness ==
    /\ last.op = "get"
    /\ last.frame = CHILD
    /\ last.key \notin DOMAIN frames[CHILD].data
    /\ last.key \notin DOMAIN frames[PARENT].data
    /\ last.key \in DOMAIN frames[GRAND].data
    /\ frames[GRAND].data[last.key].type = last.type
    /\ last.res = GetOk(frames[GRAND].data[last.key].val)

\* C5: an ancestor is never changed through a descendant: no set, get,
\* get_mut (with a write through the reference) or read_from_stream on a
\* descendant changes a shared frame's storage or what get returns on it;
\* after C.set(k, v2) C.get returns v2 while the ancestor still returns v.
C5_AncestorUntouched ==
    [][/\ \A a \in DOMAIN frames :
             frames[a].shared =>
                 /\ frames'[a] = frames[a]
                 /\ \A key \in Keys, T \in Types :
                       get(frames', a, key, T) = get(frames, a, key, T)
       /\ last'.op = "set" =>
             get(frames', last'.frame, last'.key, last'.value.type)
                 = GetOk(last'.value.val)]_vars

C5_Witness ==
    /\ last.op = "set"
    /\ last.frame = CHILD
    /\ last.key = K1
    /\ last.value = U2
    /\ get(frames, CHILD, K1, TU8) = GetOk(<<2>>)
    /\ get(frames, PARENT, K1, TU8) = GetOk(<<1>>)

\* C6: get_mut looks in local storage only: for a key absent locally it
\* returns the not-found error, also when an ancestor holds the key with
\* type T and get::<T> on the same frame succeeds.
C6_GetMutLocalOnly ==
    (last.op = "get_mut" /\ last.key \notin DOMAIN frames[last.frame].data)
        => KeyNotFound(last.res)

C6_Witness ==
    /\ last.op = "get_mut"
    /\ last.frame = CHILD
    /\ last.key \notin DOMAIN frames[CHILD].data
    /\ get(frames, CHILD, last.key, last.type).ok
    /\ KeyNotFound(last.res)

\* C7: the error kinds of get are exact over the whole chain: KeyNotFound if
\* and only if the key is absent locally and in every ancestor, TypeMismatch
\* if and only if the key is found (locally or in an ancestor) and the found
\* value is not a T.
C7_ExactErrorKinds ==
    last.op = "get" =>
        LET f == last.frame
            key == last.key
        IN  /\ KeyNotFound(last.res) <=> Holders(frames, f, key) = {}
            /\ TypeMismatch(last.res) <=>
                  /\ Holders(frames, f, key) # {}
                  /\ Nearest(frames, f, key).type # last.type

C20_SetOverwrites ==
    last.op = "set" =>
        LET f == last.frame
            k == last.key
            v == last.value
            old == last.before
            new == frames[f].data
        IN  /\ get(frames, f, k, v.type) = GetOk(v.val)
            /\ get_mut(frames, f, k, v.type) = GetOk(v.val)
            /\ \A T \in Types \ {v.type} : TypeMismatch(get(frames, f, k, T))
            /\ new[k] = v
            /\ DOMAIN new = DOMAIN old \cup {k}
            /\ Cardinality(DOMAIN new)
                  = Cardinality(DOMAIN old) + (IF k \in DOMAIN old THEN 0 ELSE 1)
            /\ \A x \in DOMAIN old \ {k} : new[x] = old[x]

C20_Witness ==
    /\ last.op = "set"
    /\ last.frame = CHILD
    /\ last.key = K1
    /\ last.value = StrA
    /\ last.before = (K1 :> U1) @@ (K2 :> U2)
    /\ frames[CHILD].data = (K1 :> StrA) @@ (K2 :> U2)
    /\ get(frames, PARENT, K1, TU8).ok
    /\ get(frames, CHILD, K1, TString) = GetOk(<<97>>)

\* C21: after set(k, v), get_mut::<T>(k) returns a reference to the stored v;
\* assigning w through it makes get and get_mut of k return w from then on
\* (the next get on the frame shows it), and changes no other key, no other
\* frame and not the set of keys; without an assignment nothing changes.
C21_GetMutWrites ==
    /\ [][last'.op = "get_mut" =>
             LET f == last'.frame
                 k == last'.key
                 T == last'.type
                 r == last'.res
                 w == last'.wrote
             IN  /\ (k \in DOMAIN frames[f].data /\ frames[f].data[k].type = T)
                       => r = GetOk(frames[f].data[k].val)
                 /\ w.some =>
                       /\ r.ok
                       /\ get(frames', f, k, T) = GetOk(w.value.val)
                       /\ get_mut(frames', f, k, T) = GetOk(w.value.val)
                       /\ DOMAIN frames'[f].data = DOMAIN frames[f].data
                       /\ \A x \in DOMAIN frames[f].data \ {k} :
                             frames'[f].data[x] = frames[f].data[x]
                       /\ \A g \in DOMAIN frames \ {f} : frames'[g] = frames[g]
                 /\ ~w.some => frames' = frames]_vars
    /\ [][(/\ last.op = "get_mut" /\ last.wrote.some
            /\ last'.op = "get"
            /\ last'.frame = last.frame
            /\ last'.key = last.key
            /\ last'.type = last.type)
           => last'.res = GetOk(last.wrote.value.val)]_vars

C21_Witness ==
    /\ last.op = "get_mut"
    /\ last.frame = CHILD
    /\ last.key = K1
    /\ last.type = TU8
    /\ last.res = GetOk(<<1>>)
    /\ last.wrote = [some |-> TRUE, value |-> U2]
    /\ frames[CHILD].data = (K1 :> U2) @@ (K2 :> StrA)
    /\ get(frames, CHILD, K1, TU8) = GetOk(<<2>>)

\* C8: when local storage holds the key with a type other than T, get::<T>
\* and get_mut::<T> return the type error as an Err value, nothing stored
\* changes, and get does not go on to an ancestor that holds the key as a T.
C8_LocalMismatch ==
    [][(/\ last'.op \in {"get", "get_mut"}
        /\ last'.key \in DOMAIN frames[last'.frame].data
        /\ frames[last'.frame].data[last'.key].type # last'.type)
       => /\ TypeMismatch(last'.res)
          /\ frames' = frames]_vars

C8_Witness ==
    /\ last.op = "get"
    /\ last.frame = CHILD
    /\ last.key \in DOMAIN frames[CHILD].data
    /\ frames[CHILD].data[last.key].type # last.type
    /\ get(frames, PARENT, last.key, last.type).ok
    /\ TypeMismatch(last.res)

(***************************************************************************)
(* Tray (tray.rs) and its stages (module.rs).  A stage is known by the     *)
(* name it was registered under; process leaves that name in the frame it  *)
(* returns, so the frame carries the stages it went through.  The start    *)
(* stage is InfiniteSource, or a source that has `left` frames to give and *)
(* returns None from then on.                                              *)
(***************************************************************************)
MaxStages == 2
MaxNum == 2

StageNames == {"S1", "S2", "S3"}

\* std::u64::MAX.  The largest integer of TLC stands for 2^64 - 1: like
\* 2^64 - 1, it is a count that no run gets to.
U64_MAX == 2147483647

InfiniteSource == [kind |-> "InfiniteSource", left |-> 0]
FiniteSource(n) == [kind |-> "Finite", left |-> n]

Registered == {tray.modules[i].name : i \in DOMAIN tray.modules}

\* Tray::new(s)
Tray_new(s) == [start_module |-> s, modules |-> <<>>]

TrayInit ==
    /\ frames = <<>>
    /\ stream = <<>>
    /\ sent = <<>>
    /\ last = NoCall
    /\ disk = NoDisk
    /\ file = NoFile
    /\ ondisk = <<>>
    /\ damaged = FALSE
    /\ reads = <<>>
    /\ \E s \in {InfiniteSource} \cup {FiniteSource(n) : n \in 0..MaxNum} :
          tray = Tray_new(s)
    /\ run = Idle

\* self.modules.push(Box::new(m))
push(mods, m) == Append(mods, m)

\* Tray::add(m)
add(m) ==
    /\ run.pc = "idle"
    /\ Len(tray.modules) < MaxStages
    /\ m.name \notin Registered
    /\ tray' = [tray EXCEPT !.modules = push(@, m)]
    /\ UNCHANGED <<frameVars, last, fileVars, run>>

\* Tray::add_fn(m) is self.add(SimpleModule::new(m))
add_fn(name) == add([kind |-> "SimpleModule", name |-> name])

\* StartModule::start: the frame produced (None: no frame) and the source after
start(src, n) ==
    IF src.kind = "InfiniteSource"
    THEN [some |-> TRUE, fr |-> [id |-> n, seen |-> <<>>], src |-> src]
    ELSE IF src.left > 0
         THEN [some |-> TRUE, fr |-> [id |-> n, seen |-> <<>>],
               src |-> [src EXCEPT !.left = @ - 1]]
         ELSE [some |-> FALSE, fr |-> [id |-> 0, seen |-> <<>>], src |-> src]

\* Module::process(fr) of the stage m
process(m, fr) == [fr EXCEPT !.seen = Append(@, m.name)]

\* mutant: the range includes its end
InRange_inclusive(i, num) == i <= num

\* mutant: the range is built as 0..num+1 in u64, which wraps at u64::MAX
InRange_wrapping(i, num) == i < (IF num = U64_MAX THEN 0 ELSE num + 1)

\* `for _ in 0..num`: whether the loop has another iteration after i of them
InRange(i, num) == i < num

\* mutant: a None from the start stage is skipped, as `continue` would
MatchStart_continue(some) == IF some THEN "stages" ELSE "loop"

\* `match self.start_module.start()`: where the run goes on, Some(fr) to the
\* stages, None to the end of the loop (break)
MatchStart(some) == IF some THEN "stages" ELSE "done"

\* mutant: the stages are walked from the last to the first
NextModule_rev(mods, j) == mods[Len(mods) - j + 1]

\* `for m in self.modules.iter()`: the j-th stage the frame is given to
NextModule(mods, j) == mods[j]

\* tray.run_bounded(num).await is entered
run_bounded(num) ==
    /\ run.pc = "idle"
    /\ run' = [pc |-> "loop", num |-> num, i |-> 0, j |-> 0, starts |-> 0,
               sawNone |-> FALSE, fr |-> [id |-> 0, seen |-> <<>>], log |-> <<>>]
    /\ UNCHANGED <<frameVars, last, fileVars, tray>>

\* tray.run().await is entered: self.run_bounded(std::u64::MAX).await
Tray_run == run_bounded(U64_MAX)

\* one turn of the outer loop: self.start_module.start() and the match on it.
\* The model follows a run for MaxNum + 1 calls of the start stage, which no
\* run_bounded(num) of the model exceeds.
Run_start ==
    /\ run.pc = "loop"
    /\ InRange(run.i, run.num)
    /\ run.starts <= MaxNum
    /\ LET r == start(tray.start_module, run.starts + 1) IN
          /\ tray' = [tray EXCEPT !.start_module = r.src]
          /\ run' = IF r.some
                    THEN [run EXCEPT !.pc = MatchStart(TRUE), !.i = @ + 1, !.j = 1,
                                     !.starts = @ + 1, !.fr = r.fr]
                    ELSE [run EXCEPT !.pc = MatchStart(FALSE), !.i = @ + 1,
                                     !.starts = @ + 1, !.sawNone = TRUE]
    /\ UNCHANGED <<frameVars, last, fileVars>>

\* mutant: the inner loop ends after the first stage
iter_end_early(mods, j) == j > Len(mods) \/ j > 1

\* `for m in self.modules.iter()`: whether the iterator is at its end after
\* j - 1 stages
iter_end(mods, j) == j > Len(mods)

\* no frame: the value of `fr` outside the Some arm
NoFrame == [id |-> 0, seen |-> <<>>]

\* mutant: the frame a stage returns is dropped, the next stage gets the old one
Run_process_stale ==
    /\ run.pc = "stages"
    /\ ~iter_end(tray.modules, run.j)
    /\ LET m == NextModule(tray.modules, run.j) IN
          run' = [run EXCEPT !.j = @ + 1,
                             !.log = Append(@, [stage |-> m.name, given |-> run.fr,
                                                returned |-> process(m, run.fr)])]
    /\ UNCHANGED <<frameVars, last, fileVars, tray>>

\* fr = m.process(fr) for the next stage
Run_process ==
    /\ run.pc = "stages"
    /\ ~iter_end(tray.modules, run.j)
    /\ LET m == NextModule(tray.modules, run.j) IN
          run' = [run EXCEPT !.fr = process(m, run.fr), !.j = @ + 1,
                             !.log = Append(@, [stage |-> m.name, given |-> run.fr,
                                                returned |-> process(m, run.fr)])]
    /\ UNCHANGED <<frameVars, last, fileVars, tray>>

\* the inner loop is over: the Some arm ends and `fr` is dropped
Run_next ==
    /\ run.pc = "stages"
    /\ iter_end(tray.modules, run.j)
    /\ run' = [run EXCEPT !.pc = "loop", !.fr = NoFrame]
    /\ UNCHANGED <<frameVars, last, fileVars, tray>>

\* the outer loop is over
Run_exit ==
    /\ run.pc = "loop"
    /\ ~InRange(run.i, run.num)
    /\ run' = [run EXCEPT !.pc = "done"]
    /\ UNCHANGED <<frameVars, last, fileVars, tray>>

\* run_bounded returns to its caller
Run_return ==
    /\ run.pc = "done"
    /\ run' = Idle
    /\ UNCHANGED <<frameVars, last, fileVars, tray>>

TrayNext ==
    \/ \E name \in StageNames : add([kind |-> "Module", name |-> name])
    \/ \E name \in StageNames : add_fn(name)
    \/ \E num \in 0..MaxNum : run_bounded(num)
    \/ Run_start
    \/ Run_process
    \/ Run_next
    \/ Run_exit
    \/ Run_return

SpecTray == TrayInit /\ [][TrayNext]_vars

\* the steps of a run.  run_bounded has no await inside its loop and every
\* call of a stage returns: once entered, the run takes its next step.
RunStep == Run_start \/ Run_process \/ Run_next \/ Run_exit \/ Run_return

RunNext ==
    \/ \E name \in StageNames : add([kind |-> "Module", name |-> name])
    \/ \E name \in StageNames : add_fn(name)
    \/ \E num \in 0..MaxNum : run_bounded(num)
    \/ Tray_run
    \/ Run_start
    \/ Run_process
    \/ Run_next
    \/ Run_exit
    \/ Run_return

SpecRun == TrayInit /\ [][RunNext]_vars /\ WF_vars(RunStep)

Running == run.pc \in {"loop", "stages", "done"}

\* the calls of the stage registered at position s, in this run
CallsOf(s) == {p \in DOMAIN run.log : run.log[p].stage = tray.modules[s].name}

\* C9: with a start stage that never returns None, run_bounded(k) calls the
\* start stage exactly k times and each registered stage exactly k times, for
\* every k >= 0 (none at all for k = 0), and then returns: until it has, a
\* step of the run is always enabled and the loop has not passed k.
C9_PipelineBound ==
    Running
    => /\ tray.start_module.kind = "InfiniteSource" => ~run.sawNone
       /\ (run.pc = "done" /\ ~run.sawNone) =>
             /\ run.starts = run.num
             /\ \A s \in DOMAIN tray.modules : Cardinality(CallsOf(s)) = run.num
       /\ run.starts <= run.num
       /\ ENABLED (Run_start \/ Run_process \/ Run_next \/ Run_exit \/ Run_return)

C9_Witness ==
    /\ run.pc = "done"
    /\ tray.start_module.kind = "InfiniteSource"
    /\ run.num = 2
    /\ run.starts = 2
    /\ Len(tray.modules) = 2
    /\ Len(run.log) = 4

\* the log of a run in which every frame went through the stages in their
\* order of registration
InOrder ==
    \A p \in DOMAIN run.log :
        LET m == Len(tray.modules) IN
        /\ run.log[p].stage = tray.modules[((p - 1) % m) + 1].name
        /\ run.log[p].given.id = ((p - 1) \div m) + 1

IsPrefix(a, b) == Len(a) <= Len(b) /\ SubSeq(b, 1, Len(a)) = a

\* C10: stages registered in the order S1, ..., Sm are invoked in exactly
\* that order for every frame the start stage produces, and registration
\* only appends: a later add neither reorders nor removes earlier stages.
C10_PipelineOrder ==
    /\ [](Running => InOrder)
    /\ [][IsPrefix(tray.modules, tray'.modules)]_vars

C10_Witness ==
    /\ run.pc = "done"
    /\ Len(tray.modules) = 2
    /\ tray.modules[1].name = "S2"
    /\ tray.modules[2].name = "S1"
    /\ Len(run.log) = 4
    /\ run.log[3].stage = "S2"
    /\ run.log[4].given = [id |-> 2, seen |-> <<"S2">>]

\* the frames the start stage has produced in this run
Produced == run.starts - (IF run.sawNone THEN 1 ELSE 0)

\* C18: the start stage is called for frame i+1 only when every registered
\* stage has finished frame i (and all frames before it), the calls of the
\* stages never go back to an earlier frame, and the n-th call of each stage
\* is given the n-th frame the start stage produced.
C18_NoOverlap ==
    /\ [](Running =>
            /\ \A p, q \in DOMAIN run.log :
                  p < q => run.log[p].given.id <= run.log[q].given.id
            /\ \A s \in DOMAIN tray.modules :
                  \A p \in CallsOf(s) :
                      run.log[p].given.id = Cardinality({q \in CallsOf(s) : q <= p}))
    /\ [][(Running /\ run'.pc # "idle" /\ run'.starts = run.starts + 1) =>
             /\ Len(run.log) = run.starts * Len(tray.modules)
             /\ \A s \in DOMAIN tray.modules :
                   /\ Cardinality(CallsOf(s)) = run.starts
                   /\ \A id \in 1..run.starts :
                         \E p \in CallsOf(s) : run.log[p].given.id = id]_vars

C18_Witness ==
    /\ run.pc = "stages"
    /\ run.starts = 2
    /\ run.j = 1
    /\ run.fr.id = 2
    /\ Len(tray.modules) = 2
    /\ Len(run.log) = 2
    /\ run.log[1].given.id = 1
    /\ run.log[2].given.id = 1

\* C19: for each frame the start stage produced, every registered stage is
\* invoked exactly once; the first stage is given the frame start returned,
\* stage i+1 exactly the frame stage i returned, and the frame the last
\* stage returned is dropped: between iterations and at the end of the run
\* the Tray holds no frame.
C19_FrameThreading ==
    Running =>
        LET m == Len(tray.modules) IN
        /\ \A p \in DOMAIN run.log :
              LET pos == ((p - 1) % m) + 1 IN
              /\ run.log[p].stage = tray.modules[pos].name
              /\ run.log[p].returned = process(tray.modules[pos], run.log[p].given)
              /\ pos = 1 => run.log[p].given
                                = start(InfiniteSource, ((p - 1) \div m) + 1).fr
              /\ pos > 1 => run.log[p].given = run.log[p - 1].returned
        /\ run.pc = "stages" =>
              run.fr = IF run.j = 1 THEN start(InfiniteSource, run.starts).fr
                       ELSE run.log[Len(run.log)].returned
        /\ run.pc \in {"loop", "done"} =>
              /\ run.fr = NoFrame
              /\ \A s \in DOMAIN tray.modules, id \in 1..Produced :
                    Cardinality({p \in CallsOf(s) : run.log[p].given.id = id}) = 1
              /\ Len(run.log) = Produced * m

C19_Witness ==
    /\ run.pc = "loop"
    /\ run.starts = 1
    /\ run.fr = NoFrame
    /\ Len(tray.modules) = 2
    /\ Len(run.log) = 2
    /\ run.log[1].given = [id |-> 1, seen |-> <<>>]
    /\ run.log[1].returned = [id |-> 1, seen |-> <<tray.modules[1].name>>]
    /\ run.log[2].given = run.log[1].returned
    /\ run.log[2].returned.seen = <<tray.modules[1].name, tray.modules[2].name>>

\* C11: when the j-th call of the start stage (j <= n) is the first to return
\* None, run_bounded(n) stops at once: the start stage was called exactly j
\* times, every stage exactly j-1 times, and the only step left is the
\* return, so no stage is invoked after the None.
C11_StopOnNone ==
    /\ []((Running /\ run.sawNone) =>
            /\ run.pc = "done"
            /\ run.starts <= run.num
            /\ tray.start_module.left = 0
            /\ \A s \in DOMAIN tray.modules :
                  Cardinality(CallsOf(s)) = run.starts - 1
            /\ Len(run.log) = (run.starts - 1) * Len(tray.modules))
    /\ [][(Running /\ run.sawNone) => run' = Idle]_vars

C11_Witness ==
    /\ run.pc = "done"
    /\ run.sawNone
    /\ run.num = 2
    /\ run.starts = 2
    /\ Len(tray.modules) = 2
    /\ Len(run.log) = 2

\* a run entered through Tray::run
Unbounded == Running /\ run.num = U64_MAX

\* C12: run() is run_bounded with a count that is never reached.  It ends
\* only on a None of the start stage, and then with every frame produced
\* before the None sent through every stage; a start stage that has a None
\* to give leads to that end, and with a start stage that never returns None
\* the run never ends and always has a next step.
C12_RunUnbounded ==
    /\ [](Unbounded =>
            /\ run.pc = "done" =>
                  /\ run.sawNone
                  /\ tray.start_module.left = 0
                  /\ \A s \in DOMAIN tray.modules :
                        Cardinality(CallsOf(s)) = run.starts - 1
                  /\ InOrder
            /\ tray.start_module.kind = "InfiniteSource" => run.pc # "done"
            /\ (run.pc = "loop" /\ run.starts > MaxNum) \/ ENABLED RunStep)
    /\ (Unbounded /\ tray.start_module.kind = "Finite")
           ~> (Unbounded /\ run.pc = "done" /\ run.sawNone)

C12_Witness ==
    /\ Unbounded
    /\ run.pc = "done"
    /\ run.sawNone
    /\ run.starts = 3
    /\ Len(tray.modules) = 2
    /\ Len(run.log) = 4

=============================================================================
